---------------------------- MODULE Spec2Model ----------------------------
(***************************************************************************)
(* State-machine model of MrDanielApp (src/index.tsx): the news retrieval  *)
(* orchestrator (fetchNews and its triggers) and the chat session          *)
(* orchestrator (handleChat), together with the report exporter.           *)
(*                                                                         *)
(* React state is committed before the next user event is dispatched (the  *)
(* handlers run in discrete events), so a handler reads the current value  *)
(* of every useState cell.  A handler runs synchronously up to its first   *)
(* await; the continuation after the await is a separate step taken when   *)
(* the provider settles the call.                                          *)
(*                                                                         *)
(* Texts are sequences of characters, so that String.trim is computed.     *)
(* Variables marked "history" record what happened (which handler ran,     *)
(* what the user submitted, what the provider answered); the program never *)
(* reads them.                                                             *)
(***************************************************************************)
EXTENDS Naturals, Sequences, FiniteSets, TLC

\* ------------------------------------------------------------------ bounds

\* accepted chat submissions explored
MaxTurns == 3
\* fetchNews invocations explored (the one of the initial load included)
MaxFetches == 2
\* last value of the wall clock
MaxTime == 1
\* provider requests explored when both orchestrators run interleaved: a chat
\* submission counts once, a retrieval started by the user twice
MaxOps == 2

\* ------------------------------------------------------- program constants

\* the eight labels of CATEGORY_LIST, written without their accents
CATEGORY_LIST ==
    <<"General", "Politica", "Economia", "Internacional",
      "Seguridad", "Salud", "Energia", "Crisis">>

Categories == {CATEGORY_LIST[i] : i \in DOMAIN CATEGORY_LIST}

\* navigator.language, read by both orchestrators
NavigatorLanguage == "es-ES"

\* ------------------------------------------------------------- environment

\* chatInstance.current === null
NoSession == [id |-> 0]

\* no call, no response
NoCall == [id |-> 0]
NoResponse == [kind |-> "none"]

\* what the user can have typed into the chat input
InputTexts == {<< >>, <<" ">>, <<"a">>, <<" ", "b", " ">>}

\* response.text of a retrieval: absent, text that is not JSON, JSON that is
\* not an array, or a JSON array of items
TextUndefined == [kind |-> "undefined"]
TextGarbage == [kind |-> "garbage"]
TextObject == [kind |-> "json", value |-> [type |-> "object", items |-> << >>]]
TextArray(items) == [kind |-> "json", value |-> [type |-> "array", items |-> items]]

\* the items the provider writes for a category; the second one carries a
\* groundingSources field of its own
ItemsFor(cat) ==
    << [id |-> "1", title |-> "t1", category |-> cat, isVerified |-> TRUE,
        timestamp |-> "08:00", url |-> "https://a.example/1"],
       [id |-> "2", title |-> "t2", category |-> cat, isVerified |-> FALSE,
        timestamp |-> "09:00", url |-> "https://b.example/2",
        groundingSources |-> << [uri |-> "https://stale.example", title |-> "S"] >>] >>

\* groundingChunks of a response: two web chunks around one that is not
WebA == [uri |-> "https://a.example", title |-> "A"]
WebB == [uri |-> "https://b.example", title |-> "B"]
MixedChunks == << [web |-> WebA], [retrievedContext |-> "ctx"], [web |-> WebB] >>

\* what generateContent can resolve with for a prompt about cat
Responses(cat) ==
    { [text |-> TextUndefined, grounded |-> FALSE, chunks |-> << >>],
      [text |-> TextGarbage, grounded |-> TRUE, chunks |-> MixedChunks],
      [text |-> TextObject, grounded |-> FALSE, chunks |-> << >>],
      [text |-> TextArray(ItemsFor(cat)), grounded |-> FALSE, chunks |-> << >>],
      [text |-> TextArray(ItemsFor(cat)), grounded |-> TRUE, chunks |-> MixedChunks] }

\* ------------------------------------------------------------------- state

VARIABLES
    apiKeySet,          \* process.env.API_KEY is defined (fixed at build time)
    now,                \* the wall clock read by new Date()
    \* chat session orchestrator
    input, chatMessages, isTyping, chatInstance,
    chatCalls,          \* sendMessage calls in flight
    chatEscaped,        \* handleChat's promise rejected (an exception escaped)
    \* news retrieval orchestrator
    selectedCategory, news, loading, lastSync,
    fetchCalls,         \* generateContent calls in flight
    newsEscaped,        \* a fetchNews promise rejected (an exception escaped)
    \* history
    lastOp,             \* the handler or continuation that ran last
    lastResponse,       \* what the provider delivered to that continuation
    turns,              \* accepted chat submissions, in order
    sessionsCreated,    \* ai.chats.create calls so far
    fetches,            \* fetchNews invocations so far
    newsCall,           \* the retrieval call whose response is displayed
    newsResponse,       \* that response
    replacedCall        \* the retrieval call whose list that response replaced

chatVars == <<input, chatMessages, isTyping, chatInstance, chatCalls, chatEscaped>>
newsVars == <<selectedCategory, news, loading, lastSync, fetchCalls, newsEscaped>>
chatHist == <<turns, sessionsCreated>>
newsHist == <<fetches, newsCall, newsResponse, replacedCall>>
vars == <<apiKeySet, now, chatVars, newsVars, chatHist, newsHist, lastOp, lastResponse>>

\* ------------------------------------------------------------ pure helpers

IsSpace(c) == c \in {" ", "\t", "\n"}

RECURSIVE TrimStart(_)
TrimStart(s) ==
    IF s # << >> /\ IsSpace(Head(s)) THEN TrimStart(Tail(s)) ELSE s

RECURSIVE TrimEnd(_)
TrimEnd(s) ==
    IF s # << >> /\ IsSpace(s[Len(s)]) THEN TrimEnd(SubSeq(s, 1, Len(s) - 1)) ELSE s

\* String.prototype.trim
Trim(s) == TrimEnd(TrimStart(s))

\* response.text of the reply to a message: the provider's answer names the
\* message it answers
ReplyTexts(message) == {<<"re:">> \o Trim(message)}

\* faulty variant: the input is not trimmed
GateNoTrim(inp, typing) == inp # << >> /\ ~typing

\* faulty variant: isTyping is not consulted
GateNoFlag(inp, typing) == Trim(inp) # << >>

\* the negation of handleChat's early return: the submission is accepted
Gate(inp, typing) == Trim(inp) # << >> /\ ~typing

\* faulty variant: [msg, ...prev]
AppendMessageFront(prev, msg) == <<msg>> \o prev

\* prev => [...prev, msg]
AppendMessage(prev, msg) == Append(prev, msg)

UserMsg(text) == [role |-> "user", text |-> text]

ModelMsg(text) == [role |-> "model", text |-> text]

\* the system instruction embeds the date, the time and the ISO timestamp
\* of the moment it is built, and navigator.language
SystemInstruction(t, lang) ==
    [fullDate |-> t, exactTime |-> t, iso |-> t, language |-> lang]

\* faulty variant: the catch block appends an error entry
RejectAppendsError(prev) == Append(prev, ModelMsg(<<"error">>))

\* faulty variant: the catch block takes the failed turn's message back
RejectRollsBack(prev) == SubSeq(prev, 1, Len(prev) - 1)

\* the catch block of handleChat only logs: the transcript stays as it is
MessagesAfterReject(prev) == prev

\* faulty variant: a session is created on every turn
CreateAlways(cur, fresh) == fresh

\* if (!chatInstance.current) chatInstance.current = ai.chats.create(...)
CreateIfMissing(cur, fresh) == IF cur = NoSession THEN fresh ELSE cur

\* new Date().toISOString()
Iso(t) == ToString(t)

\* faulty variant: the category is not interpolated
PromptFixed(cat, lang, iso) ==
    <<"Retrieve 8 most recent verified news items for", "General", "in", lang,
      "Current date:", iso>>

\* the prompt template of fetchNews with its three interpolations
Prompt(cat, lang, iso) ==
    <<"Retrieve 8 most recent verified news items for", cat, "in", lang,
      "Current date:", iso>>

\* the category a prompt was built for
PromptCategory(prompt) == prompt[2]

\* the dependency array [selectedCategory, fetchNews] of the effect: fetchNews
\* is a useCallback with no dependencies, so only the category can differ
DepsChanged(prev, next) == prev # next

\* response.candidates?.[0]?.groundingMetadata?.groundingChunks
\*     ?.map(c => c.web).filter(Boolean) || []
Grounding(resp) ==
    IF ~resp.grounded THEN << >>
    ELSE LET webs == SelectSeq(resp.chunks, LAMBDA c : "web" \in DOMAIN c)
         IN  [i \in DOMAIN webs |-> webs[i].web]

\* response.text || "[]"
TextOrDefault(text) == IF text.kind = "undefined" THEN TextArray(<< >>) ELSE text

\* JSON.parse: throws on text that is not JSON
JsonParse(text) ==
    IF text.kind = "json" THEN [ok |-> TRUE, value |-> text.value]
    ELSE [ok |-> FALSE, value |-> [type |-> "object", items |-> << >>]]

\* faulty variant: { groundingSources: grounding, ...item }
AnnotateKeepOwn(item, grounding) ==
    IF "groundingSources" \in DOMAIN item THEN item
    ELSE [f \in DOMAIN item \cup {"groundingSources"} |->
             IF f = "groundingSources" THEN grounding ELSE item[f]]

\* { ...item, groundingSources: grounding }
Annotate(item, grounding) ==
    [f \in DOMAIN item \cup {"groundingSources"} |->
        IF f = "groundingSources" THEN grounding ELSE item[f]]

\* lines 226-230: ok is FALSE when JSON.parse throws or the value parsed has
\* no map method
Data(resp) ==
    LET parsed == JsonParse(TextOrDefault(resp.text))
        grounding == Grounding(resp)
    IN  IF parsed.ok /\ parsed.value.type = "array"
        THEN [ok |-> TRUE,
              items |-> [i \in DOMAIN parsed.value.items |->
                            Annotate(parsed.value.items[i], grounding)]]
        ELSE [ok |-> FALSE, items |-> << >>]

\* faulty variant: setNews(prev => [...prev, ...data])
MergeNews(prev, data) == prev \o data

\* setNews(data)
ReplaceNews(prev, data) == data

\* faulty variant: setLastSync in the finally block
SyncAlways(ok, prev, t) == t

\* setLastSync(new Date()) is the last statement of the try block
SyncTime(ok, prev, t) == IF ok THEN t ELSE prev

\* faulty variant: the catch block clears the list
ClearNewsOnFailure(ok, prev, data) == IF ok THEN ReplaceNews(prev, data) ELSE << >>

\* the news list after the continuation of fetchNews: the catch block only logs
NewsAfter(ok, prev, data) == IF ok THEN ReplaceNews(prev, data) ELSE prev

\* exportCSV: the rows of the report, each the fields joined by ","
CsvRows(list) ==
    << <<"Title", "Category", "Verified", "Time", "URL">> >> \o
    [i \in DOMAIN list |->
        << <<"\"", list[i].title, "\"">>, <<list[i].category>>,
           <<IF list[i].isVerified THEN "YES" ELSE "NO">>,
           <<list[i].timestamp>>, <<list[i].url>> >>]

\* ------------------------------------------------------------------- Init

\* The state after the first render and its effects: the useState initial
\* values, and fetchNews("General") started by the effect of lines 296-298.
Init ==
    /\ apiKeySet \in BOOLEAN
    /\ now = 0
    /\ input = << >>
    /\ chatMessages = << >>
    /\ isTyping = FALSE
    /\ chatInstance = NoSession
    /\ chatCalls = {}
    /\ chatEscaped = FALSE
    /\ selectedCategory = "General"
    /\ news = << >>
    /\ loading = TRUE
    /\ lastSync = 0
    /\ fetchCalls =
          IF apiKeySet
          THEN {[id |-> 1, prompt |-> Prompt("General", NavigatorLanguage, Iso(0))]}
          ELSE {}
    /\ newsEscaped = ~apiKeySet
    /\ lastOp = "init"
    /\ lastResponse = NoResponse
    /\ turns = << >>
    /\ sessionsCreated = 0
    /\ fetches = 1
    /\ newsCall = NoCall
    /\ newsResponse = NoResponse
    /\ replacedCall = NoCall

\* ------------------------------------------------------------------- clock

Tick ==
    /\ now < MaxTime
    /\ now' = now + 1
    /\ lastOp' = "tick"
    /\ lastResponse' = NoResponse
    /\ UNCHANGED <<apiKeySet, chatVars, newsVars, chatHist, newsHist>>

\* -------------------------------------------------------------------- chat

\* onChange of the chat input: setInput(e.target.value)
TypeInput(text) ==
    /\ input' = text
    /\ lastOp' = "typeInput"
    /\ lastResponse' = NoResponse
    /\ UNCHANGED <<apiKeySet, now, chatMessages, isTyping, chatInstance, chatCalls,
                   chatEscaped, newsVars, chatHist, newsHist>>

\* handleChat up to its await.  The early return leaves everything as it
\* was.  new GoogleGenAI throws when no API key is set; that statement is
\* outside the try, so the exception escapes after the three state updates.
HandleChat ==
    /\ lastOp' = "handleChat"
    /\ lastResponse' = NoResponse
    /\ UNCHANGED <<apiKeySet, now, newsVars, newsHist>>
    /\ IF ~Gate(input, isTyping)
       THEN UNCHANGED <<chatVars, chatHist>>
       ELSE /\ Len(turns) < MaxTurns
            /\ chatMessages' = AppendMessage(chatMessages, UserMsg(input))
            /\ input' = << >>
            /\ isTyping' = TRUE
            /\ turns' = Append(turns, [message |-> input, outcome |-> "pending",
                                       reply |-> << >>])
            /\ IF ~apiKeySet
               THEN /\ chatEscaped' = TRUE
                    /\ UNCHANGED <<chatInstance, chatCalls, sessionsCreated>>
               ELSE /\ chatInstance' =
                          CreateIfMissing(chatInstance,
                              [id |-> sessionsCreated + 1,
                               systemInstruction |->
                                   SystemInstruction(now, NavigatorLanguage)])
                    /\ sessionsCreated' =
                          IF chatInstance' = chatInstance
                          THEN sessionsCreated ELSE sessionsCreated + 1
                    /\ chatCalls' = chatCalls \cup
                          {[turn |-> Len(turns) + 1,
                            session |-> chatInstance',
                            message |-> input]}
                    /\ UNCHANGED chatEscaped

\* sendMessage resolved: the reply is appended, then finally clears isTyping
ChatResolve(call, text) ==
    /\ call \in chatCalls
    /\ chatCalls' = chatCalls \ {call}
    /\ chatMessages' = AppendMessage(chatMessages, ModelMsg(text))
    /\ isTyping' = FALSE
    /\ turns' = [turns EXCEPT ![call.turn].outcome = "ok", ![call.turn].reply = text]
    /\ lastOp' = "chatResolve"
    /\ lastResponse' = [kind |-> "reply", text |-> text]
    /\ UNCHANGED <<apiKeySet, now, input, chatInstance, chatEscaped, sessionsCreated,
                   newsVars, newsHist>>

\* sendMessage rejected: catch logs, finally clears isTyping
ChatReject(call) ==
    /\ call \in chatCalls
    /\ chatCalls' = chatCalls \ {call}
    /\ isTyping' = FALSE
    /\ turns' = [turns EXCEPT ![call.turn].outcome = "failed"]
    /\ chatMessages' = MessagesAfterReject(chatMessages)
    /\ lastOp' = "chatReject"
    /\ lastResponse' = NoResponse
    /\ UNCHANGED <<apiKeySet, now, input, chatInstance, chatEscaped,
                   sessionsCreated, newsVars, newsHist>>

\* -------------------------------------------------------------------- news

\* faulty variant: fetchNews returns at once while a retrieval is outstanding
FetchNewsGated(cat) ==
    IF fetchCalls # {}
    THEN UNCHANGED <<fetches, loading, fetchCalls, newsEscaped>>
    ELSE /\ fetches < MaxFetches
         /\ fetches' = fetches + 1
         /\ loading' = TRUE
         /\ IF ~apiKeySet
            THEN /\ newsEscaped' = TRUE
                 /\ UNCHANGED fetchCalls
            ELSE /\ fetchCalls' = fetchCalls \cup
                       {[id |-> fetches + 1,
                         prompt |-> Prompt(cat, NavigatorLanguage, Iso(now))]}
                 /\ UNCHANGED newsEscaped

\* fetchNews up to its await.  new GoogleGenAI is outside the try: without an
\* API key it throws after setLoading(true) and no request is issued.
FetchNews(cat) ==
    /\ fetches < MaxFetches
    /\ fetches' = fetches + 1
    /\ loading' = TRUE
    /\ IF ~apiKeySet
       THEN /\ newsEscaped' = TRUE
            /\ UNCHANGED fetchCalls
       ELSE /\ fetchCalls' = fetchCalls \cup
                  {[id |-> fetches + 1,
                    prompt |-> Prompt(cat, NavigatorLanguage, Iso(now))]}
            /\ UNCHANGED newsEscaped

\* onClick of a category button: setSelectedCategory(cat); the effect of
\* lines 296-298 runs fetchNews when its dependencies changed
SelectCategory(cat) ==
    /\ selectedCategory' = cat
    /\ IF DepsChanged(selectedCategory, cat)
       THEN FetchNews(cat)
       ELSE UNCHANGED <<fetches, loading, fetchCalls, newsEscaped>>
    /\ lastOp' = "selectCategory"
    /\ lastResponse' = NoResponse
    /\ UNCHANGED <<apiKeySet, now, news, lastSync, newsCall, newsResponse,
                   replacedCall, chatVars, chatHist>>

\* onClick of the refresh button: fetchNews(selectedCategory)
Refresh ==
    /\ FetchNews(selectedCategory)
    /\ lastOp' = "refresh"
    /\ lastResponse' = NoResponse
    /\ UNCHANGED <<apiKeySet, now, selectedCategory, news, lastSync,
                   newsCall, newsResponse, replacedCall, chatVars, chatHist>>

\* generateContent resolved with resp: lines 226-233, then finally
FetchResolve(call, resp) ==
    /\ call \in fetchCalls
    /\ fetchCalls' = fetchCalls \ {call}
    /\ LET data == Data(resp)
       IN  /\ news' = NewsAfter(data.ok, news, data.items)
           /\ lastSync' = SyncTime(data.ok, lastSync, now)
           /\ newsCall' = IF data.ok THEN call ELSE newsCall
           /\ newsResponse' = IF data.ok THEN resp ELSE newsResponse
           /\ replacedCall' = IF data.ok THEN newsCall ELSE replacedCall
    /\ loading' = FALSE
    /\ lastOp' = "fetchResolve"
    /\ lastResponse' = resp
    /\ UNCHANGED <<apiKeySet, now, selectedCategory, newsEscaped, fetches,
                   chatVars, chatHist>>

\* generateContent rejected: catch logs, finally clears loading
FetchReject(call) ==
    /\ call \in fetchCalls
    /\ fetchCalls' = fetchCalls \ {call}
    /\ news' = NewsAfter(FALSE, news, << >>)
    /\ lastSync' = SyncTime(FALSE, lastSync, now)
    /\ loading' = FALSE
    /\ lastOp' = "fetchReject"
    /\ lastResponse' = NoResponse
    /\ UNCHANGED <<apiKeySet, now, selectedCategory, newsEscaped, fetches,
                   newsCall, newsResponse, replacedCall, chatVars, chatHist>>

\* the file exportCSV hands to the browser
Report(list, t) ==
    [name |-> <<"MrDaniel_Report_", Iso(t), ".csv">>, rows |-> CsvRows(list)]

\* onClick of the export button: the report is downloaded, no state of the
\* application is written
ExportCSV ==
    /\ Report(news, now).rows[1] = <<"Title", "Category", "Verified", "Time", "URL">>
    /\ lastOp' = "exportCSV"
    /\ lastResponse' = NoResponse
    /\ UNCHANGED <<apiKeySet, now, newsVars, newsHist, chatVars, chatHist>>

NextNews ==
    \/ \E cat \in Categories : SelectCategory(cat)
    \/ Refresh
    \/ \E call \in fetchCalls :
          \E resp \in Responses(PromptCategory(call.prompt)) : FetchResolve(call, resp)
    \/ \E call \in fetchCalls : FetchReject(call)
    \/ ExportCSV
    \/ Tick

SpecNews == Init /\ [][NextNews]_vars

NextChat ==
    \/ \E text \in InputTexts : TypeInput(text)
    \/ HandleChat
    \/ \E call \in chatCalls :
          \E text \in ReplyTexts(call.message) : ChatResolve(call, text)
    \/ \E call \in chatCalls : ChatReject(call)
    \/ Tick

SpecChat == Init /\ [][NextChat]_vars

\* ------------------------------------------------------- the whole program

\* both orchestrators interleaved
Ops == Len(turns) + 2 * (fetches - 1)

Next ==
    \/ NextChat /\ Ops' <= MaxOps
    \/ NextNews /\ Ops' <= MaxOps

Spec == Init /\ [][Next]_vars

\* ================================================================== claims

\* ----------------------------------------------------------------- helpers

\* what the transcript must be after the turns of a log: each turn its user
\* message, followed by the reply when the turn succeeded
RECURSIVE TranscriptOf(_)
TranscriptOf(log) ==
    IF log = << >> THEN << >>
    ELSE LET t == Head(log)
         IN  <<UserMsg(t.message)>>
             \o (IF t.outcome = "ok" THEN <<ModelMsg(t.reply)>> ELSE << >>)
             \o TranscriptOf(Tail(log))

NumTurns(outcome) == Cardinality({i \in DOMAIN turns : turns[i].outcome = outcome})

\* no chat turn is outstanding
ChatSettled == ~isTyping /\ chatCalls = {}

Alternating(msgs) ==
    \A i \in DOMAIN msgs : msgs[i].role = IF i % 2 = 1 THEN "user" ELSE "model"

\* a retrieval response from which lines 226-233 build a list
RetrievalSucceeded(resp) ==
    \/ resp.text.kind = "undefined"
    \/ resp.text.kind = "json" /\ resp.text.value.type = "array"

Contains(prompt, token) == \E i \in DOMAIN prompt : prompt[i] = token

\* the step issued exactly one generateContent call, and its prompt names cat
OneNewCallFor(cat) ==
    \E c \in fetchCalls' :
        /\ c \notin fetchCalls
        /\ fetchCalls' = fetchCalls \cup {c}
        /\ Contains(c.prompt, cat)

\* -------------------------------------------------------------------- C1

\* C1 as stated: whenever no turn is outstanding, the transcript holds exactly
\* 2N entries, N the number of turns that succeeded, alternating user, model.
C1_TwoPerSuccessfulTurn ==
    ChatSettled =>
        /\ Len(chatMessages) = 2 * NumTurns("ok")
        /\ Alternating(chatMessages)

\* C1 amended: whenever no turn is outstanding, after N successful and F failed
\* turns the transcript holds exactly 2N + F entries in submission order: each
\* successful turn its user message immediately followed by its reply, each
\* failed turn its user message alone (so 2N alternating entries when F = 0).
C1_TranscriptOfTurns ==
    ChatSettled =>
        /\ chatMessages = TranscriptOf(turns)
        /\ Len(chatMessages) = 2 * NumTurns("ok") + NumTurns("failed")
        /\ NumTurns("failed") = 0 => Alternating(chatMessages)

C1_Witness ==
    /\ ChatSettled
    /\ NumTurns("ok") = 2
    /\ NumTurns("failed") = 1
    /\ turns[2].outcome = "failed"
    /\ turns[1].message # turns[3].message
    /\ Len(chatMessages) = 5

\* -------------------------------------------------------------------- C2

\* C2: while isTyping is true an invocation of handleChat changes nothing of
\* the chat (no transcript entry, no provider call, no session); at most one
\* sendMessage call is in flight in every reachable state; and a call is
\* issued only from a state with no call in flight and isTyping false.
C2_SingleInFlight ==
    /\ [][(isTyping /\ lastOp' = "handleChat") => UNCHANGED <<chatVars, chatHist>>]_vars
    /\ [](Cardinality(chatCalls) <= 1)
    /\ [][(chatCalls' # chatCalls /\ chatCalls' # {})
            => (chatCalls = {} /\ ~isTyping /\ lastOp' = "handleChat")]_vars

C2_Witness ==
    /\ lastOp = "handleChat"
    /\ isTyping
    /\ Trim(input) # << >>
    /\ Cardinality(chatCalls) = 1
    /\ Len(chatMessages) = 3

\* -------------------------------------------------------------------- C3

\* C3: an invocation of handleChat with empty or whitespace-only input issues
\* no provider call, creates no session and leaves the transcript, the input
\* field and isTyping unchanged.
C3_BlankInputIgnored ==
    [][(lastOp' = "handleChat" /\ Trim(input) = << >>)
        => UNCHANGED <<chatMessages, input, isTyping, chatCalls, chatInstance,
                       sessionsCreated, turns, chatEscaped>>]_vars

C3_Witness ==
    /\ lastOp = "handleChat"
    /\ input = <<" ">>
    /\ ~isTyping
    /\ Len(chatMessages) = 2
    /\ chatCalls = {}

\* -------------------------------------------------------------------- C4

C5_FailedRetrievalKeepsNews ==
    [][(\/ lastOp' = "fetchReject"
        \/ lastOp' = "fetchResolve" /\ ~RetrievalSucceeded(lastResponse'))
        => (news' = news /\ ~loading' /\ newsEscaped' = newsEscaped)]_vars

C5_Witness ==
    /\ lastOp = "fetchResolve"
    /\ lastResponse.text.kind = "garbage"
    /\ Len(news) = 2
    /\ ~loading
    /\ ~newsEscaped

\* -------------------------------------------------------------------- C6

\* C6: when sendMessage rejects, the transcript is unchanged and ends with the
\* user's message of that turn, isTyping is cleared, and no call is left or
\* issued: a provider call is only ever issued by an invocation of handleChat.
C6_FailedTurnKeepsUserMessage ==
    /\ [][lastOp' = "chatReject"
            => /\ chatMessages' = chatMessages
               /\ chatMessages'[Len(chatMessages')] =
                      UserMsg(turns'[Len(turns')].message)
               /\ turns'[Len(turns')].outcome = "failed"
               /\ ~isTyping'
               /\ chatCalls' = {}]_vars
    /\ [][(chatCalls' \ chatCalls # {}) => lastOp' = "handleChat"]_vars

C6_Witness ==
    /\ lastOp = "chatReject"
    /\ Len(chatMessages) = 3
    /\ chatMessages[3].role = "user"
    /\ ~isTyping
    /\ chatCalls = {}

\* -------------------------------------------------------------------- C7

\* C7: lastSync changes only in the continuation of a retrieval that
\* succeeded, in the same step that replaces the news list; no other step
\* (failed retrieval, category change, refresh, chat action, export, clock)
\* changes it.
C7_SyncOnlyOnSuccess ==
    [][lastSync' # lastSync
        => /\ lastOp' = "fetchResolve"
           /\ RetrievalSucceeded(lastResponse')
           /\ news' = Data(lastResponse').items
           /\ lastSync' = now]_vars

C7_Witness ==
    /\ lastSync = 1
    /\ turns # << >>
    /\ news # << >>

\* -------------------------------------------------------------------- C8

\* C8 as stated: every selection of a category issues exactly one retrieval
\* call whose prompt contains the category's token (stated for the builds
\* that have an API key, where fetchNews does reach generateContent).
C8_EverySelectionFetches ==
    [][(lastOp' = "selectCategory" /\ apiKeySet)
        => OneNewCallFor(selectedCategory')]_vars

\* C8 amended: selecting a category other than the selected one invokes
\* fetchNews exactly once, which (an API key being set) issues exactly one
\* generateContent call whose prompt contains that category's token; selecting
\* the category that is already selected starts no retrieval.
C8_ChangeOfCategoryFetches ==
    [][lastOp' = "selectCategory"
        => IF selectedCategory' = selectedCategory
           THEN fetchCalls' = fetchCalls /\ fetches' = fetches /\ loading' = loading
           ELSE /\ fetches' = fetches + 1
                /\ loading'
                /\ IF apiKeySet THEN OneNewCallFor(selectedCategory')
                   ELSE fetchCalls' = fetchCalls /\ newsEscaped']_vars

C8_Witness ==
    /\ lastOp = "selectCategory"
    /\ selectedCategory = "Crisis"
    /\ Cardinality(fetchCalls) = 2
    /\ \E c \in fetchCalls : c.id = 2 /\ Contains(c.prompt, "Crisis")

\* -------------------------------------------------------------------- C9

\* C9 as stated: the displayed list comes from one retrieval, and it never
\* holds items retrieved for a category other than the selected one.
C9_ListOfSelectedCategory ==
    /\ newsCall # NoCall => news = Data(newsResponse).items
    /\ (newsCall # NoCall /\ news # << >>)
          => PromptCategory(newsCall.prompt) = selectedCategory

\* C9 amended: the displayed list is the initial empty list or the list built
\* from the response of exactly one successful retrieval call, replaced in
\* full and never merged; a change of the selected category leaves the list
\* as it is (it is replaced only when a retrieval succeeds), so the list can
\* hold items retrieved for a category other than the selected one.
C9_ListOfOneRetrieval ==
    /\ [](IF newsCall = NoCall
          THEN news = << >> /\ newsResponse = NoResponse
          ELSE /\ RetrievalSucceeded(newsResponse)
               /\ news = Data(newsResponse).items
               /\ \A i \in DOMAIN news :
                      news[i].category = PromptCategory(newsCall.prompt))
    /\ [][lastOp' = "selectCategory" => news' = news]_vars
    /\ [][news' # news => lastOp' = "fetchResolve"]_vars

C9_Witness ==
    /\ newsCall # NoCall
    /\ newsCall.id = 1
    /\ Len(news) = 2
    /\ lastOp = "selectCategory"
    /\ selectedCategory # PromptCategory(newsCall.prompt)
    /\ news[1].category # selectedCategory

\* ------------------------------------------------------------------- C10

\* C10: after a successful retrieval every item of the list carries the same
\* groundingSources, the web citations of that response in order (empty when
\* the response has no grounding metadata).
C10_SharedGrounding ==
    newsCall # NoCall =>
        \A i \in DOMAIN news :
            /\ news[i].groundingSources =
                   (IF newsResponse.grounded
                    THEN SelectSeq([k \in DOMAIN newsResponse.chunks |->
                                       IF "web" \in DOMAIN newsResponse.chunks[k]
                                       THEN newsResponse.chunks[k].web
                                       ELSE [uri |-> "", title |-> ""]],
                                   LAMBDA w : w.uri # "")
                    ELSE << >>)
            /\ news[i].groundingSources = news[1].groundingSources

C10_Witness ==
    /\ lastOp = "fetchResolve"
    /\ Len(news) = 2
    /\ news[1].groundingSources = <<WebA, WebB>>
    /\ news[2].groundingSources = <<WebA, WebB>>

\* ------------------------------------------------------------------- C11

\* the step is a trigger of fetchNews: the refresh button, or a category
\* button that changes the selected category
RetrievalTriggered ==
    \/ lastOp' = "refresh"
    \/ lastOp' = "selectCategory" /\ selectedCategory' # selectedCategory

\* C11: retrievals are not gated and the one that completes last wins.  With
\* an API key every trigger issues a new generateContent call for the
\* category selected by that step, whether or not earlier calls are still
\* outstanding; and every retrieval that succeeds replaces the displayed list
\* with the items of its own response, those of the category of its own
\* prompt, whether or not it is the call that was issued last.
C11_UngatedLastCompletedWins ==
    /\ [][(apiKeySet /\ RetrievalTriggered) =>
             \E c \in fetchCalls' \ fetchCalls :
                 /\ fetchCalls' = fetchCalls \cup {c}
                 /\ PromptCategory(c.prompt) = selectedCategory']_vars
    /\ [][(lastOp' = "fetchResolve" /\ RetrievalSucceeded(lastResponse')) =>
             \E c \in fetchCalls \ fetchCalls' :
                 /\ fetchCalls' = fetchCalls \ {c}
                 /\ news' = Data(lastResponse').items
                 /\ \A i \in DOMAIN news' :
                        news'[i].category = PromptCategory(c.prompt)]_vars

\* two retrievals overlapped and both succeeded; the one issued first
\* completed last, so after all calls have settled the list on display is
\* that of a category that is not the selected one
C11_Witness ==
    /\ fetchCalls = {}
    /\ ~loading
    /\ newsCall.id = 1
    /\ replacedCall.id = 2
    /\ PromptCategory(replacedCall.prompt) = selectedCategory
    /\ PromptCategory(newsCall.prompt) # selectedCategory
    /\ Len(news) = 2
    /\ news[1].category # selectedCategory

\* ------------------------------------------------------------------- C12

IsPrefix(a, b) == Len(a) <= Len(b) /\ SubSeq(b, 1, Len(a)) = a

\* C12: the transcript is append-only.  Every step either leaves chatMessages
\* as it is or appends exactly one entry at its end, so no entry is ever
\* changed, moved or removed, a failed chat call included.
C12_AppendOnly ==
    [][\/ chatMessages' = chatMessages
       \/ /\ Len(chatMessages') = Len(chatMessages) + 1
          /\ IsPrefix(chatMessages, chatMessages')]_vars

\* a chat call has just failed on a transcript that already holds the
\* entries of a failed turn and of a successful one
C12_Witness ==
    /\ lastOp = "chatReject"
    /\ Len(turns) = 3
    /\ turns[1].outcome = "failed"
    /\ turns[2].outcome = "ok"
    /\ turns[3].outcome = "failed"
    /\ Len(chatMessages) = 4
    /\ chatMessages[4] = UserMsg(turns[3].message)

\* ------------------------------------------------------------------- C13

\* C13 as stated: every accepted submission has its isTyping flag cleared,
\* whichever step of the turn fails.  The flag is cleared by the finally
\* block alone, which runs when the turn's sendMessage call settles, so the
\* claim requires that while isTyping is set such a call is outstanding.
C13_TypingAwaitsACall ==
    isTyping => chatCalls # {}

\* ------------------------------------------------------------------- C14

NumRole(msgs, role) == Cardinality({i \in DOMAIN msgs : msgs[i].role = role})

\* the step appended an entry of the given role to the transcript
Appended(role) ==
    /\ Len(chatMessages') = Len(chatMessages) + 1
    /\ chatMessages'[Len(chatMessages')].role = role

\* C14: in every reachable state the transcript holds no more model entries
\* than user entries, its first entry (if any) is a user entry, and every
\* model entry comes right after a user entry; and a model entry is appended
\* only by a step taken while a chat call is outstanding.
C14_ModelFollowsUser ==
    /\ [](/\ NumRole(chatMessages, "model") <= NumRole(chatMessages, "user")
          /\ chatMessages # << >> => chatMessages[1].role = "user"
          /\ \A i \in DOMAIN chatMessages :
                 chatMessages[i].role = "model" =>
                     i > 1 /\ chatMessages[i - 1].role = "user")
    /\ [][Appended("model") => isTyping /\ chatCalls # {}]_vars

\* after two failed turns and a successful one: two user entries in a row,
\* then the model entry
C14_Witness ==
    /\ ChatSettled
    /\ NumTurns("failed") = 2
    /\ Len(chatMessages) = 4
    /\ chatMessages[1].role = "user"
    /\ chatMessages[2].role = "user"
    /\ chatMessages[3].role = "user"
    /\ chatMessages[4].role = "model"

\* ------------------------------------------------------------------- C15

\* C15 as stated, for a build with an API key: in every reachable state the
\* loading indicator is true whenever at least one retrieval is outstanding
\* and false once every issued retrieval has resolved or failed, so the
\* completion of one retrieval does not clear it while another is in flight.
C15_LoadingWhileOutstanding ==
    apiKeySet =>
        /\ fetchCalls # {} => loading
        /\ fetchCalls = {} => ~loading

=============================================================================
